---------------------------- MODULE Spec2Model ----------------------------
(***************************************************************************)
(* Reticulum over D-star serial interface (ReticulumOverDstar.py).         *)
(*                                                                         *)
(* The model covers the HDLC escaper, the octet-at-a-time deframer of      *)
(* read_loop with its staleness clock, process_incoming with the Base64    *)
(* decode, process_outgoing, and the link lifecycle (configure_device,     *)
(* the fault path of read_loop, reconnect_port).                           *)
(*                                                                         *)
(* Octets are integers 0..255.  Time is kept as the number of milliseconds *)
(* that have passed since last_read_ms, capped just above the timeout: the *)
(* code only ever compares that difference with self.timeout.              *)
(***************************************************************************)
EXTENDS Integers, Sequences, FiniteSets, TLC

(***************************************************************************)
(* Program constants.                                                      *)
(***************************************************************************)
FLAG == 126

ESC == 125

ESC_MASK == 32

\* self.timeout, in milliseconds
timeout == 100

\* sleep(0.08) in the idle branch of read_loop, in milliseconds
SLEEP_MS == 80

(***************************************************************************)
(* Bounds of the model.                                                    *)
(***************************************************************************)
\* self.HW_MTU, scaled down from 700 so that frames at and above it are reached
HW_MTU == 4

\* most frames in one multi-frame stream
MaxFrames == 2

\* longest payload of a frame in a multi-frame or post-gap stream
MaxMultiLen == 1

(***************************************************************************)
(* Octet alphabets the inputs are drawn from.                              *)
(***************************************************************************)
\* 0x7E, 0x7D, their masked forms 0x5E and 0x5D, and 'A'
Octets == {FLAG, ESC, 94, 93, 65}

\* octets of the payloads of a multi-frame or post-gap stream
MultiOctets == {FLAG, ESC, 65}

\* octets of a truncated frame: no delimiter
PrefixOctets == {ESC, 94, 65}

\* octets of an unstructured stream
RawOctets == {FLAG, ESC, 65}

\* octets of Base64 text: 'A' and the pad '='
CodecOctets == {65, 61}

\* marks, in a stream, a pause longer than the idle timeout
GAP == 0 - 1

SeqsUpTo(S, n) == UNION {[1..k -> S] : k \in 0..n}

Min(a, b) == IF a < b THEN a ELSE b

(***************************************************************************)
(* Bitwise exclusive or of two octets (Python's ^).                        *)
(***************************************************************************)
RECURSIVE XorBits(_, _, _)
XorBits(a, b, n) ==
    IF n = 0 THEN 0
    ELSE (((a % 2) + (b % 2)) % 2) + (2 * XorBits(a \div 2, b \div 2, n - 1))

Xor(a, b) == XorBits(a, b, 8)

(***************************************************************************)
(* bytes.replace(old, new) for a one-octet old.                            *)
(***************************************************************************)
RECURSIVE Replace(_, _, _)
Replace(data, old, new) ==
    IF data = <<>> THEN <<>>
    ELSE (IF Head(data) = old THEN new ELSE <<Head(data)>>)
         \o Replace(Tail(data), old, new)

\* HDLC.escape with the two replacements in the other order
HDLC_escape_FlagFirst(data) ==
    LET d1 == Replace(data, FLAG, <<ESC, Xor(FLAG, ESC_MASK)>>)
    IN  Replace(d1, ESC, <<ESC, Xor(ESC, ESC_MASK)>>)

(***************************************************************************)
(* HDLC.escape: ESC is replaced first, FLAG second.                        *)
(***************************************************************************)
HDLC_escape(data) ==
    LET d1 == Replace(data, ESC, <<ESC, Xor(ESC, ESC_MASK)>>)
    IN  Replace(d1, FLAG, <<ESC, Xor(FLAG, ESC_MASK)>>)

(***************************************************************************)
(* The Base64 alphabet: value of an ASCII octet (64 for an octet outside   *)
(* the alphabet) and the octet of a value.                                 *)
(***************************************************************************)
B64Value(c) ==
    IF c >= 65 /\ c <= 90 THEN c - 65
    ELSE IF c >= 97 /\ c <= 122 THEN c - 97 + 26
    ELSE IF c >= 48 /\ c <= 57 THEN c - 48 + 52
    ELSE IF c = 43 THEN 62
    ELSE IF c = 47 THEN 63
    ELSE 64

B64Char(v) ==
    IF v < 26 THEN 65 + v
    ELSE IF v < 52 THEN 97 + (v - 26)
    ELSE IF v < 62 THEN 48 + (v - 52)
    ELSE IF v = 62 THEN 43
    ELSE 47

B64_PAD == 61

(***************************************************************************)
(* base64.b64decode(data) with validate=False: octets outside the alphabet *)
(* are skipped, a complete pad sequence ends the parse, and a quad left    *)
(* open at the end is an error.  Returns [ok, out].                        *)
(***************************************************************************)
RECURSIVE B64Scan(_, _, _, _, _)
B64Scan(s, quad_pos, leftchar, pads, out) ==
    IF s = <<>>
    THEN [ok |-> quad_pos = 0, out |-> out]
    ELSE LET c == Head(s)
             v == B64Value(c)
         IN  IF c = B64_PAD
             THEN IF quad_pos >= 2 /\ quad_pos + pads + 1 >= 4
                  THEN [ok |-> TRUE, out |-> out]
                  ELSE B64Scan(Tail(s), quad_pos, leftchar,
                               IF quad_pos >= 2 THEN pads + 1 ELSE pads, out)
             ELSE IF v >= 64
             THEN B64Scan(Tail(s), quad_pos, leftchar, pads, out)
             ELSE IF quad_pos = 0
             THEN B64Scan(Tail(s), 1, v, 0, out)
             ELSE IF quad_pos = 1
             THEN B64Scan(Tail(s), 2, v % 16, 0,
                          Append(out, ((leftchar * 4) + (v \div 16)) % 256))
             ELSE IF quad_pos = 2
             THEN B64Scan(Tail(s), 3, v % 4, 0,
                          Append(out, ((leftchar * 16) + (v \div 4)) % 256))
             ELSE B64Scan(Tail(s), 0, 0, 0,
                          Append(out, ((leftchar * 64) + v) % 256))

b64decode(data) == B64Scan(data, 0, 0, 0, <<>>)

(***************************************************************************)
(* base64.b64encode(data): three octets become four characters, the last   *)
(* group is padded with '='.                                               *)
(***************************************************************************)
RECURSIVE b64encode(_)
b64encode(data) ==
    IF data = <<>> THEN <<>>
    ELSE IF Len(data) = 1
    THEN <<B64Char(data[1] \div 4), B64Char((data[1] % 4) * 16),
           B64_PAD, B64_PAD>>
    ELSE IF Len(data) = 2
    THEN <<B64Char(data[1] \div 4),
           B64Char(((data[1] % 4) * 16) + (data[2] \div 16)),
           B64Char((data[2] % 16) * 4), B64_PAD>>
    ELSE <<B64Char(data[1] \div 4),
           B64Char(((data[1] % 4) * 16) + (data[2] \div 16)),
           B64Char(((data[2] % 16) * 4) + (data[3] \div 64)),
           B64Char(data[3] % 64)>>
         \o b64encode(SubSeq(data, 4, Len(data)))


(***************************************************************************)
(* State.                                                                  *)
(***************************************************************************)
VARIABLES
    online,        \* self.online
    serial,        \* self.serial: [is_open, id], id counts the Serial objects made
    rx,            \* input buffer of self.serial (in_waiting is its length)
    wire,          \* octets (and pauses) that have not reached the port yet
    threads,       \* thread 0 runs __init__; the others run read_loop and,
                   \* after it, reconnect_port: pc and the locals of read_loop
    senders,       \* the callers of process_outgoing: pc and locals
    tx,            \* octets written to the port, each with its writer
    txb,           \* self.txb
    openable,      \* serial.Serial(...) would succeed now
    faults,        \* read failures the port has raised so far
    incoming,      \* arguments process_incoming was called with, in order
    inbound,       \* payloads handed to owner.inbound, in order
    rxb,           \* self.rxb
    nread,         \* octets read from the port so far
    stale_polls,   \* values of nread at which an idle poll, in a frame,
                   \* saw time_since_last > self.timeout
    sc             \* the stream the environment plays: kind, payloads, prefix

vars == <<online, serial, rx, wire, threads, senders, tx, txb, openable,
          faults, incoming, inbound, rxb, nread, stale_polls, sc>>

\* what the deframer actions leave alone
linkvars == <<senders, tx, txb, openable, faults>>

\* most read_loop threads alive at once
MaxThreads == 3

\* most read failures the port raises
MaxFaults == 2

\* the threads that run read_loop
Tids == 1..MaxThreads

\* the thread that constructs the adapter
MainTid == 0

\* the two caller contexts of process_outgoing
Senders == {1, 2}

\* the packet each caller sends
SendData(s) == IF s = 1 THEN <<>> ELSE <<0>>

\* a read_loop that starts as if a frame were already open
ReadLoopStart_InFrame ==
    [pc |-> "loop", in_frame |-> TRUE, escape |-> FALSE,
     data_buffer |-> <<>>, time_since_last |-> 0]

(***************************************************************************)
(* Locals of read_loop as set at its start (lines 168-171).                *)
(***************************************************************************)
ReadLoopStart ==
    [pc |-> "loop", in_frame |-> FALSE, escape |-> FALSE,
     data_buffer |-> <<>>, time_since_last |-> 0]

NoThread ==
    [pc |-> "free", in_frame |-> FALSE, escape |-> FALSE,
     data_buffer |-> <<>>, time_since_last |-> 0]

\* the room test with <= for <
BufferHasRoom_OffByOne(st) == Len(st.data_buffer) <= HW_MTU

(***************************************************************************)
(* len(data_buffer) < self.HW_MTU (line 185).                              *)
(***************************************************************************)
BufferHasRoom(st) == Len(st.data_buffer) < HW_MTU

\* an opening delimiter that keeps the old buffer
OpenFrame_KeepBuffer(st) ==
    [in_frame |-> TRUE, escape |-> st.escape,
     data_buffer |-> st.data_buffer, emit |-> FALSE]

(***************************************************************************)
(* A delimiter outside a frame (lines 182-184): the frame opens with an    *)
(* empty buffer; the escape flag is left as it is.                         *)
(***************************************************************************)
OpenFrame(st) ==
    [in_frame |-> TRUE, escape |-> st.escape,
     data_buffer |-> <<>>, emit |-> FALSE]

(***************************************************************************)
(* The octet after an escape (lines 189-193): the two tests run in turn.   *)
(***************************************************************************)
Unmask(byte) ==
    LET b1 == IF byte = Xor(FLAG, ESC_MASK) THEN FLAG ELSE byte
    IN  IF b1 = Xor(ESC, ESC_MASK) THEN ESC ELSE b1

(***************************************************************************)
(* A caller of process_outgoing before its call.  written is what          *)
(* serial.write returned (-1: nothing yet, or it raised); result is how    *)
(* the call ended.                                                         *)
(***************************************************************************)
SenderIdle ==
    [pc |-> "idle", framed |-> <<>>, sent |-> 0, written |-> 0 - 1,
     result |-> "none"]

(***************************************************************************)
(* One octet through the if/elif chain of read_loop (lines 178-195).       *)
(* emit says that process_incoming is called with the old data_buffer.     *)
(***************************************************************************)
ReadLoopByte(st, byte) ==
    IF st.in_frame /\ byte = FLAG
    THEN [in_frame |-> FALSE, escape |-> st.escape,
          data_buffer |-> st.data_buffer, emit |-> TRUE]
    ELSE IF byte = FLAG
    THEN OpenFrame(st)
    ELSE IF st.in_frame /\ BufferHasRoom(st)
    THEN IF byte = ESC
         THEN [in_frame |-> TRUE, escape |-> TRUE,
               data_buffer |-> st.data_buffer, emit |-> FALSE]
         ELSE [in_frame |-> TRUE, escape |-> FALSE,
               data_buffer |-> Append(st.data_buffer,
                                      IF st.escape THEN Unmask(byte) ELSE byte),
               emit |-> FALSE]
    ELSE [in_frame |-> st.in_frame, escape |-> st.escape,
          data_buffer |-> st.data_buffer, emit |-> FALSE]

\* the staleness reset that clears the buffer only
StaleReset_KeepFrame(st) == [st EXCEPT !.data_buffer = <<>>]

(***************************************************************************)
(* The staleness reset (lines 200-202).                                    *)
(***************************************************************************)
StaleReset(st) ==
    [st EXCEPT !.data_buffer = <<>>, !.in_frame = FALSE, !.escape = FALSE]

\* process_incoming without its try/except: the decode error escapes
process_incoming_NoCatch(data) ==
    LET d == b64decode(data)
    IN  [raised |-> ~d.ok, delivered |-> d.ok, binary |-> d.out]

(***************************************************************************)
(* process_incoming (lines 131-143): the decode error is caught and        *)
(* logged, so the call never raises; on success rxb grows and the binary   *)
(* data goes to owner.inbound.                                             *)
(***************************************************************************)
process_incoming(data) ==
    LET d == b64decode(data)
    IN  [raised |-> FALSE, delivered |-> d.ok, binary |-> d.out]

(***************************************************************************)
(* The streams the environment plays.                                      *)
(***************************************************************************)
Payloads(n) == SeqsUpTo(Octets, n)

Frame(p) == <<FLAG>> \o HDLC_escape(p) \o <<FLAG>>

RECURSIVE FramesStream(_)
FramesStream(ps) ==
    IF ps = <<>> THEN <<>> ELSE Frame(Head(ps)) \o FramesStream(Tail(ps))

FrameScenarios ==
    {[kind |-> "frames", ps |-> <<p>>, pre |-> <<>>] : p \in Payloads(HW_MTU)}
    \cup
    {[kind |-> "frames", ps |-> q, pre |-> <<>>] :
        q \in UNION {[1..n -> SeqsUpTo(MultiOctets, MaxMultiLen)] :
                        n \in 2..MaxFrames}}
    \cup
    {[kind |-> "frames", ps |-> <<p, q>>, pre |-> <<>>] :
        p \in SeqsUpTo(CodecOctets, HW_MTU), q \in SeqsUpTo(CodecOctets, HW_MTU)}

TruncScenarios ==
    {[kind |-> "truncated", ps |-> <<p>>, pre |-> x] :
        x \in SeqsUpTo(PrefixOctets, HW_MTU - 1),
        p \in SeqsUpTo(MultiOctets, MaxMultiLen)}

RawScenarios ==
    {[kind |-> "raw", ps |-> <<>>, pre |-> x] :
        x \in SeqsUpTo(RawOctets, HW_MTU + 2)}

\* two non-empty payloads whose frames share the delimiter between them
SharedScenarios ==
    {[kind |-> "shared", ps |-> <<p, q>>, pre |-> <<>>] :
        p \in SeqsUpTo(MultiOctets, MaxMultiLen) \ {<<>>},
        q \in SeqsUpTo(MultiOctets, MaxMultiLen) \ {<<>>}}

\* one frame whose payload is longer than HW_MTU
OverScenarios ==
    {[kind |-> "over", ps |-> <<y>>, pre |-> <<>>] :
        y \in {x \in SeqsUpTo(MultiOctets, HW_MTU + 2) : Len(x) > HW_MTU}}

StreamOf(s) ==
    IF s.kind = "frames" THEN FramesStream(s.ps)
    ELSE IF s.kind = "truncated"
    THEN <<FLAG>> \o s.pre \o <<GAP>> \o Frame(s.ps[1])
    ELSE IF s.kind = "shared"
    THEN <<FLAG>> \o HDLC_escape(s.ps[1]) \o <<FLAG>>
                  \o HDLC_escape(s.ps[2]) \o <<FLAG>>
    ELSE IF s.kind = "over" THEN Frame(s.ps[1])
    ELSE s.pre

(***************************************************************************)
(* Initial state: the adapter is constructed, the port is open, the first  *)
(* read_loop has set up its locals, nothing has arrived.                   *)
(***************************************************************************)
Init ==
    /\ sc \in FrameScenarios \cup TruncScenarios \cup RawScenarios
                \cup SharedScenarios \cup OverScenarios
    /\ wire = StreamOf(sc)
    /\ rx = <<>>
    /\ online = TRUE
    /\ serial = [is_open |-> TRUE]
    /\ threads = [t \in {MainTid} \cup Tids |->
                     IF t = MainTid THEN [NoThread EXCEPT !.pc = "done"]
                     ELSE IF t = 1 THEN ReadLoopStart ELSE NoThread]
    /\ senders = [s \in Senders |-> SenderIdle]
    /\ tx = <<>>
    /\ txb = 0
    /\ openable = TRUE
    /\ faults = 0
    /\ incoming = <<>>
    /\ inbound = <<>>
    /\ rxb = 0
    /\ nread = 0
    /\ stale_polls = {}

\* the stream has reached a pause
AtGap == IF wire = <<>> THEN FALSE ELSE Head(wire) = GAP

(***************************************************************************)
(* The environment delivers the next octet of the stream to the port, once *)
(* the octet before it has been read: read_loop takes one octet per        *)
(* iteration, so it sees the same octets in the same order as with a       *)
(* backlog, with every placement of idle polls between them.               *)
(***************************************************************************)
Arrive ==
    /\ wire # <<>>
    /\ ~AtGap
    /\ rx = <<>>
    /\ serial.is_open
    /\ rx' = Append(rx, Head(wire))
    /\ wire' = Tail(wire)
    /\ UNCHANGED <<online, serial, threads, incoming, inbound, rxb, nread,
                   stale_polls, sc, linkvars>>

(***************************************************************************)
(* read_loop, in_waiting > 0 (lines 174-195): read one octet, restart the  *)
(* staleness clock, run the octet through the deframer and, on a closing   *)
(* delimiter, call process_incoming before anything else is read.  Had     *)
(* process_incoming raised, the except clause (line 206) would take over.  *)
(***************************************************************************)
ReadOctet(t) ==
    /\ threads[t].pc = "loop"
    /\ serial.is_open
    /\ rx # <<>>
    /\ LET st == threads[t]
           r  == ReadLoopByte(st, Head(rx))
           pi == process_incoming(st.data_buffer)
       IN  /\ rx' = Tail(rx)
           /\ nread' = nread + 1
           /\ threads' = [threads EXCEPT ![t] =
                 [pc |-> IF r.emit /\ pi.raised THEN "offline" ELSE "loop",
                  in_frame |-> r.in_frame, escape |-> r.escape,
                  data_buffer |-> r.data_buffer, time_since_last |-> 0]]
           /\ incoming' = IF r.emit THEN Append(incoming, st.data_buffer)
                          ELSE incoming
           /\ inbound' = IF r.emit /\ pi.delivered
                         THEN Append(inbound, pi.binary) ELSE inbound
           /\ rxb' = IF r.emit /\ pi.delivered
                     THEN rxb + Len(pi.binary) ELSE rxb
           /\ online' = IF r.emit /\ pi.raised THEN FALSE ELSE online
    /\ UNCHANGED <<serial, wire, stale_polls, sc, linkvars>>

(***************************************************************************)
(* The octets of a framed stream follow each other within the idle         *)
(* timeout; a pause longer than that happens only where the stream has a   *)
(* GAP, at its end, or anywhere in an unstructured stream.                 *)
(***************************************************************************)
MayPause == sc.kind = "raw" \/ wire = <<>> \/ AtGap

(***************************************************************************)
(* read_loop, in_waiting = 0 (lines 197-203): a stale non-empty buffer is  *)
(* dropped and the deframer reset, then the loop sleeps.  d is the time    *)
(* the sleep takes: SLEEP_MS, or long enough to pass the timeout.          *)
(***************************************************************************)
IdlePoll(t) ==
    /\ threads[t].pc = "loop"
    /\ serial.is_open
    /\ rx = <<>>
    /\ \E d \in {SLEEP_MS, timeout + 1} :
          LET st    == threads[t]
              stale == Len(st.data_buffer) > 0 /\ st.time_since_last > timeout
              st1   == IF stale THEN StaleReset(st) ELSE st
              after == Min(st.time_since_last + d, timeout + 1)
          IN  /\ after > timeout => MayPause
              /\ threads' = [threads EXCEPT ![t] =
                    [st1 EXCEPT !.time_since_last = after]]
              /\ stale_polls' = IF st.in_frame /\ st.time_since_last > timeout
                                THEN stale_polls \cup {nread} ELSE stale_polls
    /\ UNCHANGED <<online, serial, rx, wire, incoming, inbound, rxb, nread,
                   sc, linkvars>>

(***************************************************************************)
(* The environment ends a pause of the stream, once more than the idle     *)
(* timeout has passed since the read loop last read an octet.              *)
(***************************************************************************)
EndPause ==
    /\ AtGap
    /\ \E t \in Tids : /\ threads[t].pc = "loop"
                       /\ threads[t].time_since_last > timeout
    /\ wire' = Tail(wire)
    /\ UNCHANGED <<online, serial, rx, threads, incoming, inbound, rxb, nread,
                   stale_polls, sc, linkvars>>

Next ==
    \/ Arrive
    \/ EndPause
    \/ \E t \in Tids : ReadOctet(t)
    \/ \E t \in Tids : IdlePoll(t)

Spec == Init /\ [][Next]_vars


(***************************************************************************)
(* The link lifecycle: __init__, configure_device, the way out of          *)
(* read_loop, reconnect_port, and process_outgoing.                        *)
(***************************************************************************)
\* what the lifecycle actions leave alone
rxvars == <<incoming, inbound, rxb, nread, stale_polls, sc>>

sendvars == <<senders, tx, txb>>

\* every thread that can run configure_device
AllTids == {MainTid} \cup Tids

\* the stream the port receives in the lifecycle runs: one delimiter
LinkStream == <<FLAG>>

(***************************************************************************)
(* self.serial after serial.Serial(...) has succeeded (open_port, lines    *)
(* 107-121): a new object, open, with an empty input buffer.               *)
(***************************************************************************)
Opened == [is_open |-> TRUE]

(***************************************************************************)
(* Start of __init__ with a port configured: nothing is open, nothing runs.*)
(***************************************************************************)
LinkInit ==
    /\ sc = [kind |-> "raw", ps |-> <<>>, pre |-> LinkStream]
    /\ wire = LinkStream
    /\ rx = <<>>
    /\ online = FALSE
    /\ serial = [is_open |-> FALSE]
    /\ threads = [t \in AllTids |->
                     IF t = MainTid THEN [NoThread EXCEPT !.pc = "init"]
                     ELSE NoThread]
    /\ senders = [s \in Senders |-> SenderIdle]
    /\ tx = <<>>
    /\ txb = 0
    /\ openable \in BOOLEAN
    /\ faults = 0
    /\ incoming = <<>>
    /\ inbound = <<>>
    /\ rxb = 0
    /\ nread = 0
    /\ stale_polls = {}

(***************************************************************************)
(* __init__, lines 63-75: without a port in the configuration ValueError   *)
(* is raised; with one, online is set False and the port is opened next.   *)
(***************************************************************************)
InitPort ==
    /\ threads[MainTid].pc = "init"
    /\ \E has_port \in BOOLEAN :
          threads' = [threads EXCEPT ![MainTid].pc =
                         IF has_port THEN "init_open" ELSE "init_raised"]
    /\ UNCHANGED <<online, serial, rx, wire, openable, faults, rxvars,
                   sendvars>>

\* the opening of the port at startup with its failure swallowed
InitOpen_Swallowed ==
    /\ threads[MainTid].pc = "init_open"
    /\ IF openable
       THEN /\ serial' = Opened
            /\ rx' = <<>>
       ELSE UNCHANGED <<serial, rx>>
    /\ threads' = [threads EXCEPT ![MainTid].pc = "cfg_start"]
    /\ UNCHANGED <<online, wire, openable, faults, rxvars, sendvars>>

(***************************************************************************)
(* __init__, lines 96-100: open_port; its exception is re-raised.          *)
(***************************************************************************)
InitOpen ==
    /\ threads[MainTid].pc = "init_open"
    /\ IF openable
       THEN /\ serial' = Opened
            /\ rx' = <<>>
            /\ threads' = [threads EXCEPT ![MainTid].pc = "init_check"]
       ELSE /\ threads' = [threads EXCEPT ![MainTid].pc = "init_raised"]
            /\ UNCHANGED <<serial, rx>>
    /\ UNCHANGED <<online, wire, openable, faults, rxvars, sendvars>>

(***************************************************************************)
(* __init__, lines 102-105: configure_device if the port is open, IOError  *)
(* otherwise.                                                              *)
(***************************************************************************)
InitCheck ==
    /\ threads[MainTid].pc = "init_check"
    /\ threads' = [threads EXCEPT ![MainTid].pc =
                      IF serial.is_open THEN "cfg_start" ELSE "init_raised"]
    /\ UNCHANGED <<online, serial, rx, wire, openable, faults, rxvars,
                   sendvars>>

(***************************************************************************)
(* configure_device, lines 124-127: the read_loop thread is started (it    *)
(* takes the lowest free thread slot) before online is set.                *)
(***************************************************************************)
CfgStart(c) ==
    /\ threads[c].pc = "cfg_start"
    /\ \E t \in Tids :
          /\ threads[t].pc = "free"
          /\ \A u \in Tids : u < t => threads[u].pc # "free"
          /\ threads' = [threads EXCEPT ![c].pc = "cfg_online",
                                        ![t] = ReadLoopStart]
    /\ UNCHANGED <<online, serial, rx, wire, openable, faults, rxvars,
                   sendvars>>

(***************************************************************************)
(* configure_device, line 128: self.online = True.  __init__ then returns; *)
(* reconnect_port goes back to its loop test.                              *)
(***************************************************************************)
CfgOnline(c) ==
    /\ threads[c].pc = "cfg_online"
    /\ online' = TRUE
    /\ threads' = [threads EXCEPT ![c].pc =
                      IF c = MainTid THEN "done" ELSE "reconnect"]
    /\ UNCHANGED <<serial, rx, wire, openable, faults, rxvars, sendvars>>

(***************************************************************************)
(* read_loop: in_waiting or read raises; the except clause sets            *)
(* self.online = False (lines 205-213, default policy: no panic).          *)
(***************************************************************************)
ReadFault(t) ==
    /\ threads[t].pc = "loop"
    /\ faults < MaxFaults
    /\ faults' = faults + 1
    /\ online' = FALSE
    /\ threads' = [threads EXCEPT ![t].pc = "offline"]
    /\ UNCHANGED <<serial, rx, wire, openable, rxvars, sendvars>>

(***************************************************************************)
(* read_loop, line 173: the loop ends when self.serial is not open.        *)
(***************************************************************************)
LoopExit(t) ==
    /\ threads[t].pc = "loop"
    /\ ~serial.is_open
    /\ threads' = [threads EXCEPT ![t].pc = "offline"]
    /\ UNCHANGED <<online, serial, rx, wire, openable, faults, rxvars,
                   sendvars>>

(***************************************************************************)
(* read_loop, line 215: self.online = False.                               *)
(***************************************************************************)
SetOffline(t) ==
    /\ threads[t].pc = "offline"
    /\ online' = FALSE
    /\ threads' = [threads EXCEPT ![t].pc = "close"]
    /\ UNCHANGED <<serial, rx, wire, openable, faults, rxvars, sendvars>>

(***************************************************************************)
(* read_loop, lines 216-217: self.serial.close(), then reconnect_port.     *)
(***************************************************************************)
ClosePort(t) ==
    /\ threads[t].pc = "close"
    /\ serial' = [serial EXCEPT !.is_open = FALSE]
    /\ rx' = <<>>
    /\ threads' = [threads EXCEPT ![t].pc = "reconnect"]
    /\ UNCHANGED <<online, wire, openable, faults, rxvars, sendvars>>

(***************************************************************************)
(* reconnect_port, line 220: while not self.online.  When online is seen   *)
(* true the function returns and the thread ends.                          *)
(***************************************************************************)
ReconnectCheck(t) ==
    /\ threads[t].pc = "reconnect"
    /\ threads' = [threads EXCEPT ![t] =
                      IF online THEN NoThread
                      ELSE [threads[t] EXCEPT !.pc = "open"]]
    /\ UNCHANGED <<online, serial, rx, wire, openable, faults, rxvars,
                   sendvars>>

(***************************************************************************)
(* reconnect_port, lines 222-224 and 227-228: sleep, open_port; its        *)
(* exception is caught and the loop goes round.                            *)
(***************************************************************************)
ReconnectOpen(t) ==
    /\ threads[t].pc = "open"
    /\ IF openable
       THEN /\ serial' = Opened
            /\ rx' = <<>>
            /\ threads' = [threads EXCEPT ![t].pc = "check_open"]
       ELSE /\ threads' = [threads EXCEPT ![t].pc = "reconnect"]
            /\ UNCHANGED <<serial, rx>>
    /\ UNCHANGED <<online, wire, openable, faults, rxvars, sendvars>>

(***************************************************************************)
(* reconnect_port, lines 225-226: configure_device if self.serial is open. *)
(***************************************************************************)
ReconnectCheckOpen(t) ==
    /\ threads[t].pc = "check_open"
    /\ threads' = [threads EXCEPT ![t].pc =
                      IF serial.is_open THEN "cfg_start" ELSE "reconnect"]
    /\ UNCHANGED <<online, serial, rx, wire, openable, faults, rxvars,
                   sendvars>>

(***************************************************************************)
(* The environment: the channel stops or starts being openable.            *)
(***************************************************************************)
ChannelDown ==
    /\ openable
    /\ openable' = FALSE
    /\ UNCHANGED <<online, serial, rx, wire, threads, faults, rxvars,
                   sendvars>>

ChannelUp ==
    /\ ~openable
    /\ openable' = TRUE
    /\ UNCHANGED <<online, serial, rx, wire, threads, faults, rxvars,
                   sendvars>>

\* the error test of process_outgoing with the raise left out
WriteOutcome_Swallowed(written, n) == "ok"

(***************************************************************************)
(* process_outgoing, lines 159-164: a short count raises IOError, which    *)
(* the except clause logs and raises again.                                *)
(***************************************************************************)
WriteOutcome(written, n) == IF written # n THEN "raised" ELSE "ok"

\* process_outgoing without the test of self.online
Call_NoCheck(s) ==
    /\ senders[s].pc = "idle"
    /\ senders' = [senders EXCEPT ![s] =
          [SenderIdle EXCEPT !.pc = "write",
                             !.framed = Frame(b64encode(SendData(s)))]]
    /\ UNCHANGED <<online, serial, rx, wire, threads, openable, faults,
                   rxvars, tx, txb>>

(***************************************************************************)
(* process_outgoing, lines 146-152: nothing is done unless self.online;    *)
(* the packet is Base64-encoded, escaped and framed.                       *)
(***************************************************************************)
Call(s) ==
    /\ senders[s].pc = "idle"
    /\ senders' = [senders EXCEPT ![s] =
          IF online
          THEN [SenderIdle EXCEPT !.pc = "write",
                                  !.framed = Frame(b64encode(SendData(s)))]
          ELSE [SenderIdle EXCEPT !.pc = "done", !.result = "noop"]]
    /\ UNCHANGED <<online, serial, rx, wire, threads, openable, faults,
                   rxvars, tx, txb>>

(***************************************************************************)
(* process_outgoing, line 155: self.serial.write(framed_data) is called.   *)
(***************************************************************************)
WriteBegin(s) ==
    /\ senders[s].pc = "write"
    /\ senders' = [senders EXCEPT ![s].pc = "writing"]
    /\ UNCHANGED <<online, serial, rx, wire, threads, openable, faults,
                   rxvars, tx, txb>>

(***************************************************************************)
(* serial.write puts the next octet of its argument on the channel.  The   *)
(* code holds no lock around the call and allows for a short count, so     *)
(* the octets of one call go out in steps.                                 *)
(***************************************************************************)
WriteOctet(s) ==
    /\ senders[s].pc = "writing"
    /\ serial.is_open
    /\ senders[s].sent < Len(senders[s].framed)
    /\ tx' = Append(tx, [by |-> s,
                         octet |-> senders[s].framed[senders[s].sent + 1]])
    /\ senders' = [senders EXCEPT ![s].sent = @ + 1]
    /\ UNCHANGED <<online, serial, rx, wire, threads, openable, faults,
                   rxvars, txb>>

(***************************************************************************)
(* serial.write returns the number of octets it wrote, all or fewer;       *)
(* process_outgoing, lines 158-164: txb grows, then the count is tested.   *)
(***************************************************************************)
WriteReturn(s) ==
    /\ senders[s].pc = "writing"
    /\ txb' = txb + Len(SendData(s))
    /\ senders' = [senders EXCEPT ![s] =
          [@ EXCEPT !.pc = "done", !.written = senders[s].sent,
                    !.result = WriteOutcome(senders[s].sent,
                                            Len(senders[s].framed))]]
    /\ UNCHANGED <<online, serial, rx, wire, threads, openable, faults,
                   rxvars, tx>>

(***************************************************************************)
(* serial.write raises (port closed, I/O error); process_outgoing, lines   *)
(* 162-164: logged and raised again.                                       *)
(***************************************************************************)
WriteRaise(s) ==
    /\ senders[s].pc = "writing"
    /\ senders' = [senders EXCEPT ![s] =
          [@ EXCEPT !.pc = "done", !.result = "raised"]]
    /\ UNCHANGED <<online, serial, rx, wire, threads, openable, faults,
                   rxvars, tx, txb>>

\* the steps of thread t
ThreadStep(t) ==
    \/ CfgStart(t) \/ CfgOnline(t)
    \/ ReadOctet(t) \/ IdlePoll(t) \/ ReadFault(t) \/ LoopExit(t)
    \/ SetOffline(t) \/ ClosePort(t)
    \/ ReconnectCheck(t) \/ ReconnectOpen(t) \/ ReconnectCheckOpen(t)

LinkNext ==
    \/ InitPort
    \/ InitOpen
    \/ InitCheck
    \/ CfgStart(MainTid)
    \/ CfgOnline(MainTid)
    \/ \E t \in Tids : ThreadStep(t)
    \/ Arrive
    \/ ChannelDown
    \/ ChannelUp

LinkSpec == LinkInit /\ [][LinkNext]_vars

\* the steps of the thread that constructs the adapter
MainStep ==
    InitPort \/ InitOpen \/ InitCheck \/ CfgStart(MainTid) \/ CfgOnline(MainTid)

(***************************************************************************)
(* Fair scheduling of all threads: a thread that can run is not left       *)
(* waiting for ever.  The channel and the read failures are not forced.    *)
(***************************************************************************)
FairLinkSpec ==
    /\ LinkSpec
    /\ WF_vars(MainStep)
    /\ \A t \in Tids : WF_vars(ThreadStep(t))

(***************************************************************************)
(* Senders at work on a constructed adapter: __init__ has returned, the    *)
(* first read_loop runs, nothing arrives, and the port has one read        *)
(* failure left to give.                                                   *)
(***************************************************************************)
SendInit ==
    /\ sc = [kind |-> "raw", ps |-> <<>>, pre |-> <<>>]
    /\ wire = <<>>
    /\ rx = <<>>
    /\ online = TRUE
    /\ serial = [is_open |-> TRUE]
    /\ threads = [t \in AllTids |->
                     IF t = MainTid THEN [NoThread EXCEPT !.pc = "done"]
                     ELSE IF t = 1 THEN ReadLoopStart ELSE NoThread]
    /\ senders = [s \in Senders |-> SenderIdle]
    /\ tx = <<>>
    /\ txb = 0
    /\ openable \in BOOLEAN
    /\ faults = MaxFaults - 1
    /\ incoming = <<>>
    /\ inbound = <<>>
    /\ rxb = 0
    /\ nread = 0
    /\ stale_polls = {}

\* a call of process_outgoing by caller s, step by step
SenderStep(s) ==
    \/ Call(s)
    \/ WriteBegin(s)
    \/ WriteOctet(s)
    \/ WriteReturn(s)
    \/ WriteRaise(s)

SendNext ==
    \/ \E s \in Senders : SenderStep(s)
    \/ \E t \in Tids : IdlePoll(t)
    \/ \E t \in Tids : ReadFault(t)
    \/ \E t \in Tids : SetOffline(t)
    \/ \E t \in Tids : ClosePort(t)
    \/ \E t \in Tids : ReconnectCheck(t)
    \/ \E t \in Tids : ReconnectOpen(t)
    \/ \E t \in Tids : ReconnectCheckOpen(t)
    \/ \E t \in Tids : CfgStart(t)
    \/ \E t \in Tids : CfgOnline(t)
    \/ ChannelDown
    \/ ChannelUp

SendSpec == SendInit /\ [][SendNext]_vars

(***************************************************************************)
(* Startup followed by at most one read failure: the construction of the   *)
(* adapter from its first line, with the port openable or not.  With one   *)
(* failure no read_loop ever finds its port closed.                        *)
(***************************************************************************)
StartupInit ==
    /\ sc = [kind |-> "raw", ps |-> <<>>, pre |-> LinkStream]
    /\ wire = LinkStream
    /\ rx = <<>>
    /\ online = FALSE
    /\ serial = [is_open |-> FALSE]
    /\ threads = [t \in AllTids |->
                     IF t = MainTid THEN [NoThread EXCEPT !.pc = "init"]
                     ELSE NoThread]
    /\ senders = [s \in Senders |-> SenderIdle]
    /\ tx = <<>>
    /\ txb = 0
    /\ openable \in BOOLEAN
    /\ faults = MaxFaults - 1
    /\ incoming = <<>>
    /\ inbound = <<>>
    /\ rxb = 0
    /\ nread = 0
    /\ stale_polls = {}

StartupNext ==
    \/ MainStep
    \/ Arrive
    \/ \E t \in Tids : ReadOctet(t)
    \/ \E t \in Tids : IdlePoll(t)
    \/ \E t \in Tids : ReadFault(t)
    \/ \E t \in Tids : SetOffline(t)
    \/ \E t \in Tids : ClosePort(t)
    \/ \E t \in Tids : ReconnectCheck(t)
    \/ \E t \in Tids : ReconnectOpen(t)
    \/ \E t \in Tids : ReconnectCheckOpen(t)
    \/ \E t \in Tids : CfgStart(t)
    \/ \E t \in Tids : CfgOnline(t)
    \/ ChannelDown
    \/ ChannelUp

StartupSpec == StartupInit /\ [][StartupNext]_vars

\* the stream the port receives across a restart: the frame of "A"
RestartStream == <<FLAG, 65, FLAG>>

(***************************************************************************)
(* A restart in mid-stream: the adapter is constructed, the first          *)
(* read_loop runs, a frame is arriving, and the port has one read failure  *)
(* left to give.  Nobody sends.                                            *)
(***************************************************************************)
RestartInit ==
    /\ sc = [kind |-> "raw", ps |-> <<>>, pre |-> RestartStream]
    /\ wire = RestartStream
    /\ rx = <<>>
    /\ online = TRUE
    /\ serial = [is_open |-> TRUE]
    /\ threads = [t \in AllTids |->
                     IF t = MainTid THEN [NoThread EXCEPT !.pc = "done"]
                     ELSE IF t = 1 THEN ReadLoopStart ELSE NoThread]
    /\ senders = [s \in Senders |-> SenderIdle]
    /\ tx = <<>>
    /\ txb = 0
    /\ openable \in BOOLEAN
    /\ faults = MaxFaults - 1
    /\ incoming = <<>>
    /\ inbound = <<>>
    /\ rxb = 0
    /\ nread = 0
    /\ stale_polls = {}

RestartNext ==
    \/ Arrive
    \/ \E t \in Tids : ReadOctet(t)
    \/ \E t \in Tids : IdlePoll(t)
    \/ \E t \in Tids : ReadFault(t)
    \/ \E t \in Tids : SetOffline(t)
    \/ \E t \in Tids : ClosePort(t)
    \/ \E t \in Tids : ReconnectCheck(t)
    \/ \E t \in Tids : ReconnectOpen(t)
    \/ \E t \in Tids : ReconnectCheckOpen(t)
    \/ \E t \in Tids : CfgStart(t)
    \/ \E t \in Tids : CfgOnline(t)
    \/ ChannelDown
    \/ ChannelUp

RestartSpec == RestartInit /\ [][RestartNext]_vars

(***************************************************************************)
(* Properties of the deframer, under Spec.                                 *)
(***************************************************************************)
\* every octet of the stream has arrived and has been read
Consumed == wire = <<>> /\ rx = <<>>

\* frames of ps whose closing delimiter is among the first n octets read
ClosedBy(ps, n) ==
    Cardinality({i \in 1..Len(ps) :
                    Len(FramesStream(SubSeq(ps, 1, i))) <= n})

\* C1: Escaping round-trip.  For a stream DELIM escape(y) DELIM with
\* Len(y) <= HW_MTU, read from the start state of read_loop, nothing is
\* handed to process_incoming before the closing delimiter is read, and
\* once the stream is read exactly one frame was handed over, equal to y.
C1_EscapeRoundTrip ==
    (sc.kind = "frames" /\ Len(sc.ps) = 1)
        => incoming = (IF Consumed THEN <<sc.ps[1]>> ELSE <<>>)

\* a full-length payload holding both reserved octets has gone through
C1_Witness ==
    /\ sc.kind = "frames" /\ Len(sc.ps) = 1
    /\ Len(sc.ps[1]) = HW_MTU
    /\ \E i, j \in 1..HW_MTU : sc.ps[1][i] = FLAG /\ sc.ps[1][j] = ESC
    /\ Consumed
    /\ incoming = <<sc.ps[1]>>

\* C2: Delimiter safety and ordering.  For a stream of n framed payloads,
\* at every moment the frames handed to process_incoming are exactly the
\* payloads whose closing delimiter has been read, in order: none is split,
\* merged, delayed past a later octet or reordered.
C2_DelimiterSafetyOrdering ==
    sc.kind = "frames"
        => incoming = SubSeq(sc.ps, 1, ClosedBy(sc.ps, nread))

\* two frames, the first a raw delimiter and the second a raw escape octet
C2_Witness ==
    /\ sc.kind = "frames"
    /\ sc.ps = << <<FLAG>>, <<ESC>> >>
    /\ Consumed
    /\ incoming = sc.ps

PrefixStored == \E i \in 1..Len(sc.pre) : sc.pre[i] # ESC

\* the read loop polled the idle port, after the truncated frame and before
\* the next octet, more than the timeout after its last read
GapPolled == (1 + Len(sc.pre)) \in stale_polls

RECURSIVE DecodedOf(_)
DecodedOf(fs) ==
    IF fs = <<>> THEN <<>>
    ELSE (IF b64decode(Head(fs)).ok THEN <<b64decode(Head(fs)).out>>
          ELSE <<>>) \o DecodedOf(Tail(fs))

\* C9: Decode errors are non-fatal.  Once a completed frame has failed the
\* Base64 decode, the link is still online on the same open handle, the
\* read loop is still looping, nothing was delivered for a failed frame and
\* every decodable frame, before or after, was delivered in order.
C9_DecodeErrorNonFatal ==
    (\E i \in 1..Len(incoming) : ~b64decode(incoming[i]).ok)
        => /\ online
           /\ serial = [is_open |-> TRUE]
           /\ threads[1].pc = "loop"
           /\ inbound = DecodedOf(incoming)

\* the frame "A" failed to decode and the frame "AA==" after it was
\* delivered as the octet 0
C9_Witness ==
    /\ incoming = << <<65>>, <<65, 65, 61, 61>> >>
    /\ inbound = << <<0>> >>
    /\ threads[1].pc = "loop"

\* C10: MTU bound.  The partial frame buffer of a read loop never holds
\* more than HW_MTU octets.
C10_MtuBound ==
    \A t \in Tids : Len(threads[t].data_buffer) <= HW_MTU

\* an octet was read in a frame whose buffer was already full
C10_Witness ==
    \E t \in Tids :
        /\ threads[t].in_frame
        /\ Len(threads[t].data_buffer) = HW_MTU
        /\ sc.kind = "raw"
        /\ nread = HW_MTU + 2
        /\ sc.pre[1] = FLAG
        /\ \A i \in 2..(HW_MTU + 2) : sc.pre[i] = 65

(***************************************************************************)
(* Properties of the link lifecycle, under LinkSpec and FairLinkSpec, and  *)
(* of process_outgoing, under SendSpec.                                    *)
(***************************************************************************)
\* a read_loop is running
LoopRunning == \E t \in Tids : threads[t].pc = "loop"

\* the link is up: online, on an open port that a read_loop reads
LinkUp == online /\ serial.is_open /\ LoopRunning

\* a thread waits to start a read_loop because the thread bound is reached
SlotShortage ==
    \E c \in AllTids : /\ threads[c].pc = "cfg_start"
                       /\ \A t \in Tids : threads[t].pc # "free"

\* C4: automatic recovery.  Under fair scheduling of all threads, if the
\* channel is openable from some point on, then after a read failure the
\* link is eventually up again: online, the port open, a read_loop running
\* (or the run has reached the thread bound).
C4_AutomaticRecovery ==
    (<>[]openable) => [](faults > 0 => <>(LinkUp \/ SlotShortage))

\* C5: fault visibility.  In every reachable state, online implies that
\* the port is open and a read_loop is running on it.
C5_FaultVisibility == online => (serial.is_open /\ LoopRunning)

\* C6: writes only while open.  Every step in which a call of
\* process_outgoing hands its frame to serial.write is taken while online
\* is set and the port is open.
C6_WritesOnlyWhileOpen ==
    [][\A s \in Senders :
          (senders[s].pc = "write" /\ senders'[s].pc = "writing")
              => (online /\ serial.is_open)]_vars

\* C7: write mutual exclusion.  The octets written by one call are
\* contiguous on the channel: between two octets of one call there is no
\* octet of another call.
C7_WriteMutualExclusion ==
    \A i \in 1..Len(tx) : \A j \in 1..Len(tx) : \A k \in 1..Len(tx) :
        (i < j /\ j < k /\ tx[i].by = tx[k].by) => tx[j].by = tx[i].by

\* C8: write errors propagate and are not fatal to the link.  No step of a
\* call of process_outgoing changes online, the port or a thread, and a
\* call whose write raised or returned a count other than the length of
\* the framed data ends with the error raised to its caller.
C8_WriteErrorsPropagate ==
    [][\A s \in Senders :
          /\ senders'[s] # senders[s]
                => UNCHANGED <<online, serial, threads>>
          /\ ( /\ senders[s].pc = "writing"
               /\ senders'[s].pc = "done"
               /\ senders'[s].written # Len(senders[s].framed) )
                => senders'[s].result = "raised"]_vars

\* a call ended with the error raised after a short write, on a link that
\* is still up
C8_Witness ==
    \E s \in Senders :
        /\ senders[s].pc = "done"
        /\ senders[s].result = "raised"
        /\ senders[s].written >= 0
        /\ senders[s].written < Len(senders[s].framed)
        /\ Len(tx) > 0
        /\ LinkUp

(***************************************************************************)
(* Further properties of the deframer, under Spec.                         *)
(***************************************************************************)
\* C11: delimiter dual role.  For the stream DELIM escape(p1) DELIM
\* escape(p2) DELIM, in which the two frames share one delimiter, once the
\* stream is read both p1 and p2 have been emitted, in that order.
C11_DelimiterDualRole ==
    (sc.kind = "shared" /\ Consumed) => incoming = sc.ps

\* the deframer of thread t is in the Escaped state
Escaped(t) ==
    /\ threads[t].pc = "loop"
    /\ threads[t].in_frame
    /\ threads[t].escape
    /\ BufferHasRoom(threads[t])

\* C13: escaped transition.  An octet b read in the Escaped state, whatever
\* its value, is unmasked and appended to the buffer, and the deframer is
\* back in the frame with the escape flag clear.
C13_EscapedTransition ==
    [][\A t \in Tids :
          (Escaped(t) /\ nread' = nread + 1)
              => /\ threads'[t].data_buffer =
                       Append(threads[t].data_buffer, Unmask(Head(rx)))
                 /\ threads'[t].in_frame
                 /\ ~threads'[t].escape]_vars

\* C14: empty frames are not emitted.  No frame handed to process_incoming
\* is empty, and what the router received is what the non-empty frames
\* decode to.
C14_NoEmptyFrames ==
    /\ \A i \in 1..Len(incoming) : incoming[i] # <<>>
    /\ inbound = DecodedOf(SelectSeq(incoming, LAMBDA f : f # <<>>))

\* C15: overrun truncation.  For a frame whose payload y is longer than
\* HW_MTU, the deframer stays in the frame until the closing delimiter and
\* then emits exactly the first HW_MTU octets of y, once.
C15_OverrunTruncation ==
    sc.kind = "over"
        => /\ incoming = (IF Consumed
                          THEN <<SubSeq(sc.ps[1], 1, HW_MTU)>> ELSE <<>>)
           /\ (nread > 0 /\ ~Consumed) => threads[1].in_frame

\* a payload two octets too long, the first octet too many an escaped
\* delimiter, was cut to its first HW_MTU octets
C15_Witness ==
    /\ sc.kind = "over"
    /\ Len(sc.ps[1]) = HW_MTU + 2
    /\ sc.ps[1][HW_MTU] = ESC
    /\ sc.ps[1][HW_MTU + 1] = FLAG
    /\ Consumed
    /\ incoming = <<SubSeq(sc.ps[1], 1, HW_MTU)>>

\* the frame of thread t has gone stale: it holds data and the last octet
\* was read more than the idle timeout ago
Stale(t) ==
    /\ threads[t].pc = "loop"
    /\ threads[t].in_frame
    /\ Len(threads[t].data_buffer) > 0
    /\ threads[t].time_since_last > timeout

Polls(t) ==
    /\ threads[t].pc = "loop"
    /\ nread' = nread
    /\ threads'[t].pc = "loop"
    /\ threads'[t] # threads[t]

C19_FrameIsolation ==
    \A t \in Tids : threads[t].escape => threads[t].in_frame

(***************************************************************************)
(* Further properties of the link lifecycle and of process_outgoing.       *)
(***************************************************************************)
\* the construction of the adapter has ended with an error
InitRaised == threads[MainTid].pc = "init_raised"

\* C12: startup failures are fatal and leave nothing running, under
\* StartupSpec.  An open that fails at startup ends the construction with
\* an error; whenever the
\* construction has ended with an error no read_loop or reconnect_port
\* thread exists and online is false; and a thread in reconnect_port whose
\* open fails stays in reconnect_port and tries again.
C12_StartupFailuresFatal ==
    [][/\ (threads[MainTid].pc = "init_open" /\ ~openable
              /\ threads'[MainTid] # threads[MainTid]) => InitRaised'
       /\ InitRaised' => /\ ~online'
                         /\ \A t \in Tids : threads'[t].pc = "free"
       /\ \A t \in Tids :
             (threads[t].pc = "open" /\ threads'[t].pc # "open")
                 => IF openable THEN threads'[t].pc = "check_open"
                    ELSE threads'[t].pc = "reconnect"]_vars

\* the construction ended with an error because the port could not be
\* opened
C12_Witness ==
    /\ InitRaised
    /\ ~openable
    /\ ~serial.is_open
    /\ ~online

\* the threads that are in the while loop of read_loop
Readers == {t \in Tids : threads[t].pc = "loop"}

\* C17: single session per channel.  At most one read_loop is reading at
\* any time, and no read_loop keeps running on a port that is closed.
C17_SingleSession ==
    /\ Cardinality(Readers) <= 1
    /\ Readers # {} => serial.is_open

\* C18: fresh deframer per session, under RestartSpec.  Every read_loop
\* that starts is outside a frame with an empty buffer and the escape flag
\* clear, and the only frame ever emitted is the whole frame "A": a frame
\* opened before the read failure and closed after the reconnect emits
\* nothing.
C18_FreshDeframer ==
    [][/\ \A t \in Tids :
             (threads[t].pc # "loop" /\ threads'[t].pc = "loop")
                 => /\ ~threads'[t].in_frame
                    /\ ~threads'[t].escape
                    /\ threads'[t].data_buffer = <<>>
       /\ \A i \in 1..Len(incoming') : incoming'[i] = <<65>>]_vars

\* the read failure came inside the frame; the read_loop started by the
\* reconnect read the rest, took the closing delimiter for an opening one
\* and emitted nothing
C18_Witness ==
    /\ faults = MaxFaults
    /\ nread = Len(RestartStream)
    /\ Consumed
    /\ threads[1].pc = "free"
    /\ threads[2].pc = "loop"
    /\ threads[2].in_frame
    /\ threads[2].data_buffer = <<>>
    /\ incoming = <<>>

\* the octets on the channel that caller s wrote
WrittenBy(s) == {i \in 1..Len(tx) : tx[i].by = s}

\* C20: send while not online is a silent no-op, under SendSpec.  A call
\* of process_outgoing that finds online false returns at once without an
\* error, and leaves online, the port, the threads, the channel output and
\* txb as they are; such a call never writes an octet.
C20_SendWhileOfflineNoOp ==
    [][\A s \in Senders :
          /\ (senders[s].pc = "idle" /\ senders'[s].pc # "idle" /\ ~online)
                => /\ senders'[s].pc = "done"
                   /\ senders'[s].result = "noop"
                   /\ UNCHANGED <<online, serial, threads, tx, txb>>
          /\ senders'[s].result = "noop"
                => /\ senders'[s].pc = "done"
                   /\ senders'[s].sent = 0
                   /\ {i \in 1..Len(tx') : tx'[i].by = s} = {}]_vars

\* one caller found the link offline and did nothing, after the other had
\* written its frame
C20_Witness ==
    \E s \in Senders :
        /\ senders[s].pc = "done"
        /\ senders[s].result = "noop"
        /\ ~online
        /\ WrittenBy(s) = {}
        /\ txb > 0
        /\ Len(tx) > 0

=============================================================================
